---------------------------- MODULE Spec2Model ----------------------------
(* Tic Tac Toe with Albert: the TicTacToe component (its GameState, makeMove, *)
(* resetGame, resetScore and the effect that applies albertMove) and the     *)
(* App callbacks that drive the opponent (handleGameMove with its delayed    *)
(* task and getAlbertMove, handleGameEnd, startTicTacToe).                   *)
(*                                                                         *)
(* One action is one browser task: an event handler or a timer callback,    *)
(* followed by the re-render and the effects React runs before the next     *)
(* task. The model follows one mounted TicTacToe instance: the dialog is    *)
(* opened by startTicTacToe and its closing (components/ui/dialog) is not   *)
(* modelled. No handler calls clearTimeout, so a delayed task leaves the    *)
(* queue only by firing.                                                    *)
EXTENDS Integers, Sequences, FiniteSets, TLC

\* ------------------------------------------------------------------ bounds

\* How many user events (the Gamepad button, cell clicks, New Game, Reset
\* Score) one behaviour holds. Five cell clicks fill a board.
MaxEvents == 6

\* ------------------------------------------------------------------ values

\* JavaScript null, as held by a board cell or by winner.
Null == "null"

\* albertNextMove before any move was delivered (useState(undefined)).
Undefined == -2

\* getAlbertMove's result when the board has no empty cell.
NoLegalMove == -1

Cells == 0 .. 8

Marks == {"X", "O"}

EmptyBoard == [i \in Cells |-> Null]

AllBoards == [Cells -> Marks \cup {Null}]

Min(S) == CHOOSE x \in S : \A y \in S : x <= y

\* ------------------------------------------------------------------ state

VARIABLES
    gameState,       \* TicTacToe: board, currentPlayer, winner, gameOver, score
    albertNextMove,  \* App: the albertMove prop handed to TicTacToe
    timers,          \* pending setTimeout tasks, oldest first: each one's board snapshot
    showGame,        \* App: the game dialog is open
    ended,           \* the results handed to onGameEnd so far, oldest first
    lastCall,        \* the latest getAlbertMove call: the board passed, the move returned
    events           \* the user events so far (bounded by MaxEvents)

vars == <<gameState, albertNextMove, timers, showGame, ended, lastCall, events>>

\* The eight lines, in the order checkWinner tries them.
lines ==
    << <<0, 1, 2>>, <<3, 4, 5>>, <<6, 7, 8>>,
       <<0, 3, 6>>, <<1, 4, 7>>, <<2, 5, 8>>,
       <<0, 4, 8>>, <<2, 4, 6>> >>

\* The line indexes whose three cells hold one non-null mark.
CompleteLines(board) ==
    {k \in 1 .. Len(lines) :
        /\ board[lines[k][1]] # Null
        /\ board[lines[k][1]] = board[lines[k][2]]
        /\ board[lines[k][1]] = board[lines[k][3]]}

\* TicTacToe.checkWinner: the mark of the first complete line, or null.
checkWinner(board) ==
    IF CompleteLines(board) = {}
    THEN Null
    ELSE board[lines[Min(CompleteLines(board))][1]]

\* App.checkWinner: the same loop, the copy getAlbertMove calls.
checkWinnerApp(board) ==
    IF CompleteLines(board) = {}
    THEN Null
    ELSE board[lines[Min(CompleteLines(board))][1]]

EmptyCells(board) == {i \in Cells : board[i] = Null}

\* ------------------------------------------------------- the opponent policy

\* The empty cells at which placing `mark` makes App.checkWinner answer `mark`.
WinningCells(board, mark) ==
    {i \in EmptyCells(board) :
        checkWinnerApp([board EXCEPT ![i] = mark]) = mark}

\* const corners = [0, 2, 6, 8], tried in this order.
corners == <<0, 2, 6, 8>>

EmptyCorners(board) == {k \in 1 .. Len(corners) : board[corners[k]] = Null}

\* A slip in getAlbertMove: the blocking loop is left out.
getAlbertMoveNoBlock(board) ==
    IF WinningCells(board, "O") # {} THEN Min(WinningCells(board, "O"))
    ELSE IF board[4] = Null THEN 4
    ELSE IF EmptyCorners(board) # {} THEN corners[Min(EmptyCorners(board))]
    ELSE IF EmptyCells(board) # {} THEN Min(EmptyCells(board))
    ELSE NoLegalMove

\* A slip in getAlbertMove: the blocking loop runs before the winning loop.
getAlbertMoveBlockFirst(board) ==
    IF WinningCells(board, "X") # {} THEN Min(WinningCells(board, "X"))
    ELSE IF WinningCells(board, "O") # {} THEN Min(WinningCells(board, "O"))
    ELSE IF board[4] = Null THEN 4
    ELSE IF EmptyCorners(board) # {} THEN corners[Min(EmptyCorners(board))]
    ELSE IF EmptyCells(board) # {} THEN Min(EmptyCells(board))
    ELSE NoLegalMove

\* A slip in getAlbertMove: the corners are tried before the center.
getAlbertMoveCornerFirst(board) ==
    IF WinningCells(board, "O") # {} THEN Min(WinningCells(board, "O"))
    ELSE IF WinningCells(board, "X") # {} THEN Min(WinningCells(board, "X"))
    ELSE IF EmptyCorners(board) # {} THEN corners[Min(EmptyCorners(board))]
    ELSE IF board[4] = Null THEN 4
    ELSE IF EmptyCells(board) # {} THEN Min(EmptyCells(board))
    ELSE NoLegalMove

\* App.getAlbertMove: win, block, center, corner, any, else -1.
getAlbertMove(board) ==
    IF WinningCells(board, "O") # {} THEN Min(WinningCells(board, "O"))
    ELSE IF WinningCells(board, "X") # {} THEN Min(WinningCells(board, "X"))
    ELSE IF board[4] = Null THEN 4
    ELSE IF EmptyCorners(board) # {} THEN corners[Min(EmptyCorners(board))]
    ELSE IF EmptyCells(board) # {} THEN Min(EmptyCells(board))
    ELSE NoLegalMove

\* ----------------------------------------------------------- the game engine

\* useState<GameState>(...): the state TicTacToe mounts with.
InitialGameState ==
    [board         |-> EmptyBoard,
     currentPlayer |-> "X",
     winner        |-> Null,
     gameOver      |-> FALSE,
     score         |-> [player |-> 0, albert |-> 0, draws |-> 0]]

\* A slip in makeMove's first line: the occupied-cell test is left out.
MoveRejectedGameOverOnly(gs, index) == gs.gameOver

\* board[index] as JavaScript reads it: undefined, which is falsy like null,
\* where the array holds nothing at `index`.
At(board, index) == IF index \in DOMAIN board THEN board[index] ELSE Null

\* [...board]: the copy keeps the array's elements (an assignment at a
\* negative index makes a property, which the copy drops).
Elements(board) == {i \in DOMAIN board : i >= 0}

\* makeMove's first line: it returns at once on an occupied cell or a finished
\* game. The index is not compared with the board's length.
MoveRejected(gs, index) == At(gs.board, index) # Null \/ gs.gameOver

\* A slip in isDraw: `some` written for `every`.
isDrawSome(winner, newBoard) == winner = Null /\ \E i \in Cells : newBoard[i] # Null

\* const isDraw = !winner && newBoard.every(cell => cell !== null)
isDraw(winner, newBoard) == winner = Null /\ \A i \in Cells : newBoard[i] # Null

\* A slip in makeMove's score update: a draw is not counted.
newScoreNoDraw(score, winner, gameOver) ==
    IF ~gameOver THEN score
    ELSE IF winner = "X" THEN [score EXCEPT !.player = @ + 1]
    ELSE IF winner = "O" THEN [score EXCEPT !.albert = @ + 1]
    ELSE score

\* The score makeMove stores: one counter up by one when the game ended.
newScore(score, winner, gameOver) ==
    IF ~gameOver THEN score
    ELSE IF winner = "X" THEN [score EXCEPT !.player = @ + 1]
    ELSE IF winner = "O" THEN [score EXCEPT !.albert = @ + 1]
    ELSE [score EXCEPT !.draws = @ + 1]

\* A slip in makeMove's callbacks: 'win' and 'lose' are exchanged.
gameEndResultSwapped(winner) ==
    IF winner = "X" THEN "lose" ELSE IF winner = "O" THEN "win" ELSE "draw"

\* The result makeMove hands to onGameEnd when the game ended.
gameEndResult(winner) ==
    IF winner = "X" THEN "win" ELSE IF winner = "O" THEN "lose" ELSE "draw"

\* A slip in newState: the turn is not handed over.
nextPlayerStays(currentPlayer) == currentPlayer

\* currentPlayer of makeMove's newState.
nextPlayer(currentPlayer) == IF currentPlayer = "X" THEN "O" ELSE "X"

\* makeMove's newState, for a move that is not rejected.
newState(gs, index) ==
    LET newBoard == [i \in Elements(gs.board) \cup {index} |->
                        IF i = index THEN gs.currentPlayer ELSE gs.board[i]]
        winner   == checkWinner(newBoard)
        gameOver == winner # Null \/ isDraw(winner, newBoard)
    IN  [board         |-> newBoard,
         currentPlayer |-> nextPlayer(gs.currentPlayer),
         winner        |-> winner,
         gameOver      |-> gameOver,
         score         |-> newScore(gs.score, winner, gameOver)]

\* resetGame's newState.
resetGameState(gs) ==
    [board         |-> EmptyBoard,
     currentPlayer |-> "X",
     winner        |-> Null,
     gameOver      |-> FALSE,
     score         |-> gs.score]

\* A slip in resetScore: the board is cleared along with the score.
resetScoreStateClearsBoard(gs) ==
    [gs EXCEPT !.score = [player |-> 0, albert |-> 0, draws |-> 0],
               !.board = EmptyBoard]

\* resetScore's newState.
resetScoreState(gs) ==
    [gs EXCEPT !.score = [player |-> 0, albert |-> 0, draws |-> 0]]

\* ------------------------------------------------------------ the App callbacks

\* handleGameMove (onMove): on the opponent's turn of a running game it starts
\* one more delayed task, which keeps the board it was called with.
handleGameMove(tm, gs) ==
    IF gs.currentPlayer = "O" /\ ~gs.gameOver THEN Append(tm, gs.board) ELSE tm

\* handleGameEnd (onGameEnd): setAlbertNextMove(undefined).
handleGameEnd(am) == Undefined

\* A task in progress: the component state, the App state and what was called.
\*   gs: gameState, am: albertNextMove, tm: timers,
\*   ended: the results this task gave to onGameEnd,
\*   onMoves: how often makeMove called onMove in this task.
Running(gs, am, tm) ==
    [gs |-> gs, am |-> am, tm |-> tm, ended |-> <<>>, onMoves |-> 0]

\* One call of makeMove(index) with the callbacks it makes.
makeMove(r, index) ==
    IF MoveRejected(r.gs, index) THEN r
    ELSE LET ns == newState(r.gs, index)
         IN  [gs      |-> ns,
              am      |-> IF ns.gameOver THEN handleGameEnd(r.am) ELSE r.am,
              tm      |-> handleGameMove(r.tm, ns),
              ended   |-> IF ns.gameOver
                          THEN Append(r.ended, gameEndResult(ns.winner))
                          ELSE r.ended,
              onMoves |-> r.onMoves + 1]

\* A slip in the effect's dependency list: albertMove is left out.
depsNoMove(r) == <<r.gs.currentPlayer, r.gs.gameOver>>

\* The effect's dependency list: [albertMove, currentPlayer, gameOver].
deps(r) == <<r.am, r.gs.currentPlayer, r.gs.gameOver>>

\* A slip in the effect: the delivered move is played whoever is to move.
albertEffectAnyTurn(before, r) ==
    IF /\ deps(before) # deps(r)
       /\ r.am # Undefined
       /\ ~r.gs.gameOver
    THEN makeMove(r, r.am)
    ELSE r

\* The "Handle Albert's move" effect, run after a render whose dependencies
\* differ from the previous render's.
albertEffect(before, r) ==
    IF /\ deps(before) # deps(r)
       /\ r.am # Undefined
       /\ r.gs.currentPlayer = "O"
       /\ ~r.gs.gameOver
    THEN makeMove(r, r.am)
    ELSE r

\* Renders and effects until nothing changes any more.
RECURSIVE Settle(_, _)
Settle(before, r) ==
    LET r1 == albertEffect(before, r)
    IN  IF r1 = r THEN r ELSE Settle(r, r1)

\* The state at the start of a task.
Now == Running(gameState, albertNextMove, timers)

\* A slip in resetGame: the starting mark alternates from game to game.
resetGameTaskOtherStarts(r) ==
    LET ns == [resetGameState(r.gs) EXCEPT
                  !.currentPlayer = nextPlayer(r.gs.currentPlayer)]
    IN  Settle(r, [r EXCEPT !.gs = ns, !.tm = handleGameMove(r.tm, ns),
                            !.onMoves = r.onMoves + 1])

\* resetGame as a task: setGameState(newState), onMove(newState), effects.
resetGameTask(r) ==
    LET ns == resetGameState(r.gs)
    IN  Settle(r, [r EXCEPT !.gs = ns, !.tm = handleGameMove(r.tm, ns),
                            !.onMoves = r.onMoves + 1])

\* resetScore as a task: setGameState(newState), onMove(newState), effects.
resetScoreTask(r) ==
    LET ns == resetScoreState(r.gs)
    IN  Settle(r, [r EXCEPT !.gs = ns, !.tm = handleGameMove(r.tm, ns),
                            !.onMoves = r.onMoves + 1])

\* The task's outcome becomes the next state.
Commit(r) ==
    /\ gameState' = r.gs
    /\ albertNextMove' = r.am
    /\ timers' = r.tm
    /\ ended' = ended \o r.ended

\* ------------------------------------------------------------------ actions

Init ==
    /\ gameState = InitialGameState
    /\ albertNextMove = Undefined
    /\ timers = <<>>
    /\ showGame = FALSE
    /\ ended = <<>>
    /\ lastCall = [board |-> EmptyBoard, move |-> Undefined]
    /\ events = 0

\* The Gamepad button: startTicTacToe opens the dialog and clears the
\* delivered move (the chat message it adds is not modelled).
startTicTacToe ==
    /\ events < MaxEvents
    /\ showGame' = TRUE
    /\ Commit(Settle(Now, [Now EXCEPT !.am = Undefined]))
    /\ events' = events + 1
    /\ UNCHANGED lastCall

\* A click on cell `index`; the button is disabled when the game is over, on
\* the opponent's turn and on an occupied cell.
CellClick(index) ==
    /\ events < MaxEvents
    /\ showGame
    /\ ~(gameState.gameOver \/ gameState.currentPlayer = "O"
            \/ gameState.board[index] # Null)
    /\ Commit(Settle(Now, makeMove(Now, index)))
    /\ events' = events + 1
    /\ UNCHANGED <<showGame, lastCall>>

\* The oldest delayed task runs (all tasks wait the same 1000 ms): it asks
\* getAlbertMove about the board it kept and delivers the move.
TimerFires ==
    /\ timers # <<>>
    /\ LET board == Head(timers)
           move  == getAlbertMove(board)
           r0    == [Now EXCEPT !.tm = Tail(timers)]
           r     == IF move # NoLegalMove THEN [r0 EXCEPT !.am = move] ELSE r0
       IN  /\ Commit(Settle(Now, r))
           /\ lastCall' = [board |-> board, move |-> move]
    /\ UNCHANGED <<showGame, events>>

\* The New Game button: resetGame.
resetGame ==
    /\ events < MaxEvents
    /\ showGame
    /\ Commit(resetGameTask(Now))
    /\ events' = events + 1
    /\ UNCHANGED <<showGame, lastCall>>

\* The Reset Score button: resetScore.
resetScore ==
    /\ events < MaxEvents
    /\ showGame
    /\ Commit(resetScoreTask(Now))
    /\ events' = events + 1
    /\ UNCHANGED <<showGame, lastCall>>

Next ==
    \/ startTicTacToe
    \/ \E index \in Cells : CellClick(index)
    \/ TimerFires
    \/ resetGame
    \/ resetScore

\* The program: any interleaving of user events and timer firings.
Spec == Init /\ [][Next]_vars

\* The oldest delayed task leaves the queue: of the actions of Next only
\* TimerFires shortens the queue, and it is enabled whenever a task is pending.
TaskRuns == timers # <<>> /\ timers' = Tail(timers)

\* The program with its scheduling: a task started by setTimeout runs once
\* its 1000 ms have passed, so a pending task does not wait for ever. The
\* user's events are under no obligation.
SpecLive == Init /\ [][Next]_vars /\ WF_timers(TaskRuns)

\* One game from the open dialog with no button pressed: the human clicks,
\* and each delayed task fires on the board it was started for.
InitGame ==
    /\ gameState = InitialGameState
    /\ albertNextMove = Undefined
    /\ timers = <<>>
    /\ showGame = TRUE
    /\ ended = <<>>
    /\ lastCall = [board |-> EmptyBoard, move |-> Undefined]
    /\ events = 1

NextGame ==
    \/ \E index \in Cells : CellClick(index)
    \/ TimerFires

SpecGame == InitGame /\ [][NextGame]_vars

\* getAlbertMove as a function: one delayed task holding any board on which
\* no line is complete (handleGameMove starts no task once the game is over).
PolicyBoards == {b \in AllBoards : CompleteLines(b) = {}}

InitPolicy ==
    /\ gameState = InitialGameState
    /\ albertNextMove = Undefined
    /\ timers \in {<<b>> : b \in PolicyBoards}
    /\ showGame = FALSE
    /\ ended = <<>>
    /\ lastCall = [board |-> EmptyBoard, move |-> Undefined]
    /\ events = 0

NextPolicy == TimerFires

SpecPolicy == InitPolicy /\ [][NextPolicy]_vars

\* makeMove as a function of any index: besides the clicks and the delayed
\* tasks of one game and New Game, a call makeMove(index) with any index
\* from one below the board to one past it, at any moment.
RequestIndexes == -1 .. 9

MoveRequest(index) ==
    /\ events < MaxEvents
    /\ showGame
    /\ Commit(Settle(Now, makeMove(Now, index)))
    /\ events' = events + 1
    /\ UNCHANGED <<showGame, lastCall>>

NextRequests ==
    \/ \E index \in Cells : CellClick(index)
    \/ TimerFires
    \/ resetGame
    \/ \E index \in RequestIndexes : MoveRequest(index)

SpecRequests == InitGame /\ [][NextRequests]_vars

\* ------------------------------------------------------------------ claims

\* The eight lines of three cells, as sets.
Triples ==
    {{0, 1, 2}, {3, 4, 5}, {6, 7, 8}, {0, 3, 6}, {1, 4, 7}, {2, 5, 8},
     {0, 4, 8}, {2, 4, 6}}

Other(mark) == IF mark = "X" THEN "O" ELSE "X"

\* The cells that were empty before the step and hold a mark after it.
Placed == {i \in Cells : gameState.board[i] = Null /\ gameState'.board[i] # Null}

Full(board) == \A i \in Cells : board[i] # Null

\* C1: in every reachable state gameOver is true exactly when a winner is
\* recorded or the board has no empty cell, and a recorded winner holds some
\* line of three cells.
C1_GameOverIffDecided ==
    /\ gameState.gameOver <=>
          (gameState.winner # Null \/ Full(gameState.board))
    /\ gameState.winner # Null =>
          \E t \in Triples : \A i \in t : gameState.board[i] = gameState.winner

\* C1 witness: a full board without a winner, recorded as over.
C1_Witness ==
    /\ Full(gameState.board)
    /\ gameState.winner = Null
    /\ gameState.gameOver

C3_ResetCancelsPending ==
    [][/\ (resetGame \/ startTicTacToe) => timers' = <<>>
       /\ resetScore => Len(timers') <= 1]_vars

\* C9: at most one delayed opponent-move task is pending at any time.
C9_OnePendingTask == Len(timers) <= 1

\* C10: a cell that holds a mark keeps it across every step, except a step
\* that empties the whole board.
C10_MarksStay ==
    [][\/ gameState'.board = EmptyBoard
       \/ \A i \in Cells :
             gameState.board[i] # Null =>
                gameState'.board[i] = gameState.board[i]]_vars

\* C10 witness: the delivered move points at a cell the human holds, on the
\* opponent's turn, and the X is still there.
C10_Witness ==
    /\ albertNextMove \in Cells
    /\ gameState.currentPlayer = "O"
    /\ ~gameState.gameOver
    /\ gameState.board[albertNextMove] = "X"

\* The empty cells that complete a line of three for `mark`.
Threats(board, mark) ==
    {i \in Cells :
        /\ board[i] = Null
        /\ \E t \in Triples : i \in t /\ \A k \in t \ {i} : board[k] = mark}

\* C4 as stated: played from the empty board against the policy, the human
\* never wins.
C4_HumanNeverWins == gameState.winner # "X"

\* C4 amended: the policy can be beaten, but only by a fork. A human move wins
\* only at a cell that completed a line; an opponent that has a winning cell
\* wins with its move; and after an opponent move the human has a winning
\* cell only if there were two or more before that move.
C4_BeatenOnlyByFork ==
    [][LET before == gameState.board
           after  == gameState'.board
       IN  /\ (gameState'.winner = "X" /\ gameState.winner # "X") =>
                 Placed \subseteq Threats(before, "X")
           /\ (Placed # {} /\ gameState.currentPlayer = "O") =>
                 /\ Threats(before, "O") # {} => gameState'.winner = "O"
                 /\ Threats(after, "X") # {} /\ ~gameState'.gameOver =>
                       Cardinality(Threats(before, "X")) >= 2]_vars

\* C4 witness: the human has won a game in which every opponent move was the
\* policy's answer to the board of that moment.
C4_Witness ==
    /\ gameState.winner = "X"
    /\ lastCall.move \in Cells
    /\ gameState.board[lastCall.move] = "O"

\* The score with the counter of a game's outcome raised by one.
Counted(score, winner) ==
    [player |-> score.player + (IF winner = "X" THEN 1 ELSE 0),
     albert |-> score.albert + (IF winner = "O" THEN 1 ELSE 0),
     draws  |-> score.draws + (IF winner = Null THEN 1 ELSE 0)]

\* C5: apart from a score reset, a step changes the score only when gameOver
\* becomes true, and then raises by one exactly the counter of the outcome;
\* the move that fills the board without a line ends the game as a draw.
C5_ScoreCountsGameEnds ==
    [][resetScore \/
       /\ gameState'.score =
             (IF ~gameState.gameOver /\ gameState'.gameOver
              THEN Counted(gameState.score, gameState'.winner)
              ELSE gameState.score)
       /\ (/\ ~Full(gameState.board)
           /\ Full(gameState'.board)
           /\ \A t \in Triples : \A m \in Marks :
                 \E i \in t : gameState'.board[i] # m) =>
             /\ gameState'.gameOver
             /\ gameState'.winner = Null
             /\ gameState'.score.draws = gameState.score.draws + 1]_vars

\* C5 witness: nine marks, no line, and the one draw counted.
C5_Witness ==
    /\ Full(gameState.board)
    /\ gameState.winner = Null
    /\ gameState.score = [player |-> 0, albert |-> 0, draws |-> 1]

\* The result a finished game is announced with.
Announced(winner) ==
    CASE winner = "X" -> "win" [] winner = "O" -> "lose" [] OTHER -> "draw"

\* C6: onGameEnd is called exactly at the steps where gameOver becomes true,
\* once, with the result of the recorded winner, and at no other step.
C6_OnGameEndOncePerGame ==
    [][ended' =
          (IF ~gameState.gameOver /\ gameState'.gameOver
           THEN Append(ended, Announced(gameState'.winner))
           ELSE ended)]_vars

\* C6 witness: a second game is running after the opponent won the first,
\* and onGameEnd was called once, with 'lose'.
C6_Witness ==
    /\ ended = <<"lose">>
    /\ gameState.score.albert = 1
    /\ ~gameState.gameOver
    /\ gameState.board # EmptyBoard

\* C7: getAlbertMove returns an empty cell of a board that has one, and the
\* lowest cell that completes a line for O whenever there is such a cell.
C7_EmptyCellAndWinFirst ==
    lastCall.move # Undefined =>
        LET b == lastCall.board
            m == lastCall.move
        IN  /\ ~Full(b) => m \in Cells /\ b[m] = Null
            /\ Threats(b, "O") # {} => m = Min(Threats(b, "O"))

\* C7 witness: on [X,X,_,O,O,_,_,_,_] the policy answered 5.
C7_Witness ==
    /\ lastCall.board =
          [EmptyBoard EXCEPT ![0] = "X", ![1] = "X", ![3] = "O", ![4] = "O"]
    /\ lastCall.move = 5

\* C8: without a winning cell for O, getAlbertMove returns the lowest cell
\* that completes a line for X, else cell 4, else the lowest empty corner,
\* else the lowest empty cell; and -1 exactly when no cell is empty.
C8_PriorityOrder ==
    lastCall.move # Undefined =>
        LET b == lastCall.board
            m == lastCall.move
            free == {i \in Cells : b[i] = Null}
        IN  /\ Threats(b, "O") = {} =>
                 m = (IF Threats(b, "X") # {} THEN Min(Threats(b, "X"))
                      ELSE IF 4 \in free THEN 4
                      ELSE IF free \cap {0, 2, 6, 8} # {}
                           THEN Min(free \cap {0, 2, 6, 8})
                      ELSE IF free # {} THEN Min(free)
                      ELSE -1)
            /\ m = -1 <=> free = {}

\* C8 witness: a full board was passed and the answer was -1, which is not
\* delivered.
C8_Witness ==
    /\ Full(lastCall.board)
    /\ lastCall.move = -1
    /\ albertNextMove = Undefined

\* A move request's precondition fails: the game is over, the index is
\* outside 0..8, or the cell holds a mark.
PreconditionFails(index) ==
    \/ gameState.gameOver
    \/ index \notin Cells
    \/ gameState.board[index] # Null

\* C11: a move request whose precondition fails changes nothing of the
\* GameState and calls neither onMove nor onGameEnd; and once gameOver is
\* true the board changes only by a board reset.
C11_RejectedRequestIsNoOp ==
    [][/\ \A index \in RequestIndexes :
             MoveRequest(index) /\ PreconditionFails(index) =>
                /\ gameState' = gameState
                /\ ended' = ended
                /\ makeMove(Now, index).onMoves = 0
       /\ gameState.gameOver =>
             gameState'.board = gameState.board \/ resetGame]_vars

NoScore == [player |-> 0, albert |-> 0, draws |-> 0]

\* C12: a board reset empties the board, gives X the turn and clears winner
\* and gameOver with the score as it was; a score reset zeroes the three
\* counters with board, turn, winner and gameOver as they were.
C12_ResetsAreIndependent ==
    [][/\ resetGame =>
             gameState' = [board         |-> EmptyBoard,
                           currentPlayer |-> "X",
                           winner        |-> Null,
                           gameOver      |-> FALSE,
                           score         |-> gameState.score]
       /\ resetScore =>
             gameState' = [board         |-> gameState.board,
                           currentPlayer |-> gameState.currentPlayer,
                           winner        |-> gameState.winner,
                           gameOver      |-> gameState.gameOver,
                           score         |-> NoScore]]_vars

\* C12 witness: a game was lost, then the board was reset and the score was
\* reset: an empty board, a zero score, and the one result announced.
C12_Witness ==
    /\ ended = <<"lose">>
    /\ gameState.board = EmptyBoard
    /\ gameState.score = NoScore
    /\ ~gameState.gameOver

\* The task state a task ends in, as the next task finds it.
Again(r) == Running(r.gs, r.am, r.tm)

\* C13: from every reachable state, a second board reset right after the
\* first leaves the GameState of the first, and likewise a second score reset.
C13_ResetsAreIdempotent ==
    /\ resetGameTask(Again(resetGameTask(Now))).gs = resetGameTask(Now).gs
    /\ resetScoreTask(Again(resetScoreTask(Now))).gs = resetScoreTask(Now).gs

\* C13 witness: a board already reset once after a finished game, with the
\* score it carried over: one more reset yields this very state.
C13_Witness ==
    /\ gameState.score # NoScore
    /\ gameState = resetGameTask(Now).gs
    /\ Len(ended) = 1

MarkCount(board, mark) == Cardinality({i \in Cells : board[i] = mark})

\* C14: a step places at most the human's X followed by the opponent's O; a
\* mark is placed only while the game is running, the first by the player to
\* move; a click places an X at the clicked cell and a delivered move places
\* only an O; and the X's outnumber the O's by zero or one.
C14_MarksByTurn ==
    [][/\ Placed # {} =>
             /\ ~gameState.gameOver
             /\ \E i \in Placed :
                   /\ gameState'.board[i] = gameState.currentPlayer
                   /\ \A k \in Placed \ {i} :
                         /\ gameState'.board[k] = "O"
                         /\ gameState.currentPlayer = "X"
                         /\ Placed = {i, k}
       /\ \A index \in Cells :
             CellClick(index) => gameState'.board[index] = "X"
       /\ TimerFires => \A i \in Placed : gameState'.board[i] = "O"
       /\ MarkCount(gameState'.board, "X") - MarkCount(gameState'.board, "O")
             \in {0, 1}]_vars

\* C14 witness: the human has placed three X's and the opponent two O's in a
\* running game, and the opponent is to move.
C14_Witness ==
    /\ MarkCount(gameState.board, "X") = 3
    /\ MarkCount(gameState.board, "O") = 2
    /\ gameState.currentPlayer = "O"
    /\ ~gameState.gameOver

\* The board as it stood when the mark at cell i was placed in this step:
\* everything the step placed but that mark (an O is the last mark of a step).
BoardWhenPlaced(i) == [gameState'.board EXCEPT ![i] = Null]

\* C15: every O is placed at the cell getAlbertMove returns for the board as
\* it stands when the O is placed.
C15_PlacedWherePolicySays ==
    [][\A i \in Placed :
          gameState'.board[i] = "O" => i = getAlbertMove(BoardWhenPlaced(i))]_vars

\* It is the opponent's turn in a running game.
OpponentToMove == gameState.currentPlayer = "O" /\ ~gameState.gameOver

\* C16: when every pending task eventually fires, the opponent's turn in a
\* running game always comes to an end: an O is placed (the only way the
\* turn passes or the game ends) unless New Game hands the turn back first.
C16_OpponentEventuallyMoves == OpponentToMove ~> ~OpponentToMove

\* C16 witness: the opponent is to move for the second time or later, the
\* move delivered earlier points at a cell that is taken, and the task that
\* will deliver the next move is pending.
C16_Witness ==
    /\ OpponentToMove
    /\ albertNextMove \in Cells
    /\ gameState.board[albertNextMove] = "O"
    /\ timers # <<>>
    /\ MarkCount(gameState.board, "X") = 2

=============================================================================
